---- MODULE Spec2Model ----
(***************************************************************************)
(* A model of the file-structure tool: the Directory / FileStructure       *)
(* classes (models/directory.py, models/file_structure.py), the JSON store *)
(* (services/json_crud.py) and the FileStructureTool facade                *)
(* (tools/file_structure_tool.py).                                         *)
(*                                                                         *)
(* Python strings are sequences of one-character strings, so that          *)
(* str.strip("/") and str.split("/") are computed and not assumed.         *)
(* Directory objects live in a heap keyed by object identity; a dict of    *)
(* directories is a function from keys (names) to object identities; a     *)
(* dict of files is the sequence of its keys in insertion order (a File    *)
(* holds nothing but its name, which is its key).                          *)
(***************************************************************************)
EXTENDS Integers, Sequences, FiniteSets, TLC

VARIABLES
    heap,   \* the live Directory objects: identity -> [name, files, directories]
    fs,     \* FileStructure.directories: top-level key -> identity
    disk,   \* the store's document file_structure.json: [exists, doc]
    pc,     \* "new": no facade constructed yet, "ready", "failed": __init__ or a
            \* write raised and the run ended,
            \* "returned": a facade method has returned, its caller not yet moved on
    last    \* the last call made: what was called, with what, and how it ended

vars == <<heap, fs, disk, pc, last>>

----------------------------------------------------------------------------
(* Bounds *)

\* at most this many live Directory objects
MaxObj == 3
\* at most this many characters in a path string
MaxPathLen == 5

\* at most this many characters in a path string given to the facade
MaxToolPathLen == 3
\* at most this many files in the whole structure
MaxFiles == 2
\* at most this many live Directory objects where an add may be given an
\* object the structure already holds
MaxOwnObj == 2

\* the names given to directories: "a", "b"
DirNames == {<<"a">>, <<"b">>}
\* the names given to directories where paths are resolved: "", "a"
PathDirNames == {<<>>, <<"a">>}
\* the names given to files: "a", "x"
FileNames == {<<"a">>, <<"x">>}
\* the characters of path strings
PathChars == {"a", "/"}
Paths == UNION {[1..n -> PathChars] : n \in 0..MaxPathLen}
\* the path strings given to the facade
ToolPaths == UNION {[1..n -> PathChars] : n \in 0..MaxToolPathLen}

----------------------------------------------------------------------------
(* Python values *)

\* None, where an Optional[Directory] is expected (identities are 1, 2, ...)
None == 0

\* {}: the empty dict
EmptyDict == <<>>

\* d[k] = v on a dict
Put(m, k, v) == [x \in (DOMAIN m) \cup {k} |-> IF x = k THEN v ELSE m[x]]

\* del d[k]
Del(m, k) == [x \in (DOMAIN m) \ {k} |-> m[x]]

\* d.get(k): the value, or None
Get(m, k) == IF k \in DOMAIN m THEN m[k] ELSE None

Range(m) == {m[k] : k \in DOMAIN m}

\* `n in files` for the dict of files, held as the sequence of its keys
HasFile(files, n) == \E i \in 1..Len(files) : files[i] = n

\* s.strip("/"): drop every leading and every trailing "/"
RECURSIVE LStrip(_)
LStrip(s) == IF s # <<>> /\ Head(s) = "/" THEN LStrip(Tail(s)) ELSE s

RECURSIVE RStrip(_)
RStrip(s) ==
    IF s # <<>> /\ s[Len(s)] = "/" THEN RStrip(SubSeq(s, 1, Len(s) - 1)) ELSE s

Strip(s) == RStrip(LStrip(s))

\* s.split("/"): the pieces between the separators; never an empty list
RECURSIVE Split(_)
Split(s) ==
    IF \A i \in 1..Len(s) : s[i] # "/"
    THEN <<s>>
    ELSE LET i == CHOOSE j \in 1..Len(s) :
                      s[j] = "/" /\ \A k \in 1..(j - 1) : s[k] # "/"
         IN  <<SubSeq(s, 1, i - 1)>> \o Split(SubSeq(s, i + 1, Len(s)))

----------------------------------------------------------------------------
(* The heap of Directory objects *)

\* Directory(name=n): a new object with empty dicts
NewDirectory(n) == [name |-> n, files |-> <<>>, directories |-> EmptyDict]

\* An object's identity is any value no live object has. So that one structure
\* is one state whatever the order it was built in, a new object takes the
\* number of the place it is made for (key n in the dict of `parent`, None for
\* the top level) when that number is free, and the least free number if not.
AllNames == <<<<>>, <<"a">>, <<"b">>>>
NameRank(n) == CHOOSE r \in 1..Len(AllNames) : AllNames[r] = n
Place(parent, n) == parent * (Len(AllNames) + 1) + NameRank(n)

NewId(h, place) ==
    IF place \notin DOMAIN h THEN place
    ELSE CHOOSE i \in 1..(Cardinality(DOMAIN h) + 1) :
             i \notin DOMAIN h /\ \A j \in 1..(i - 1) : j \in DOMAIN h

\* the numbers of the places of a structure within the bounds
Ids == 1..((Len(AllNames) + 1) ^ MaxObj)

\* h with a new object c = Directory(name=n)
Alloc(h, c, n) == [i \in (DOMAIN h) \cup {c} |->
                       IF i = c THEN NewDirectory(n) ELSE h[i]]

\* the objects reachable from a set of objects through `directories`
RECURSIVE ReachFrom(_, _)
ReachFrom(h, S) ==
    LET T == S \cup UNION {Range(h[i].directories) : i \in S}
    IN  IF T = S THEN S ELSE ReachFrom(h, T)

\* objects nothing refers to any more are reclaimed
Collect(h, dirs) == [i \in ReachFrom(h, Range(dirs)) |-> h[i]]

----------------------------------------------------------------------------
(* models/directory.py *)

\* Directory.__eq__ (dataclass): name, files and directories, compared by value
RECURSIVE DirectoryValue(_, _)
DirectoryValue(h, d) ==
    [name |-> h[d].name,
     files |-> h[d].files,
     directories |-> [k \in DOMAIN h[d].directories |->
                          DirectoryValue(h, h[d].directories[k])]]

\* a fault: add_directory without the check for a name already there
Directory_add_directory_overwrite(h, d, c) ==
    [err |-> "ok", heap |-> [h EXCEPT ![d].directories = Put(@, h[c].name, c)]]

Directory_add_directory(h, d, c) ==
    IF h[c].name \in DOMAIN h[d].directories
    THEN [err |-> "ValueError", heap |-> h]
    ELSE [err |-> "ok",
          heap |-> [h EXCEPT ![d].directories = Put(@, h[c].name, c)]]

Directory_remove_directory(h, d, n) ==
    IF n \notin DOMAIN h[d].directories
    THEN [err |-> "KeyError", heap |-> h]
    ELSE [err |-> "ok", heap |-> [h EXCEPT ![d].directories = Del(@, n)]]

Directory_find_directory(h, d, n) == Get(h[d].directories, n)

Directory_add_file(h, d, n) ==
    IF HasFile(h[d].files, n)
    THEN [err |-> "ValueError", heap |-> h]
    ELSE [err |-> "ok", heap |-> [h EXCEPT ![d].files = Append(@, n)]]

Directory_remove_file(h, d, n) ==
    IF ~HasFile(h[d].files, n)
    THEN [err |-> "KeyError", heap |-> h]
    ELSE [err |-> "ok",
          heap |-> [h EXCEPT ![d].files = SelectSeq(@, LAMBDA f : f # n)]]

\* File.to_dict
File_to_dict(n) == [name |-> n]

\* File.from_dict: data["name"], a KeyError when the key is missing
File_from_dict(data) ==
    IF "name" \in DOMAIN data
    THEN [err |-> "ok", name |-> data.name]
    ELSE [err |-> "KeyError", name |-> <<>>]

\* a fault: to_dict lists the files last inserted first
RECURSIVE Directory_to_dict_reversed(_, _)
Directory_to_dict_reversed(h, d) ==
    [files |-> [i \in 1..Len(h[d].files) |->
                   File_to_dict(h[d].files[Len(h[d].files) - i + 1])],
     directories |-> [k \in DOMAIN h[d].directories |->
                          Directory_to_dict_reversed(h, h[d].directories[k])]]

RECURSIVE Directory_to_dict(_, _)
Directory_to_dict(h, d) ==
    [files |-> [i \in 1..Len(h[d].files) |-> File_to_dict(h[d].files[i])],
     directories |-> [k \in DOMAIN h[d].directories |->
                          Directory_to_dict(h, h[d].directories[k])]]

\* the loop over data.get("files", []) of Directory.from_dict
RECURSIVE ReplayFiles(_, _, _)
ReplayFiles(h, d, files_data) ==
    IF files_data = <<>> THEN [err |-> "ok", heap |-> h]
    ELSE LET f == File_from_dict(Head(files_data))
             r == Directory_add_file(h, d, f.name)
         IN  IF f.err # "ok" THEN [err |-> f.err, heap |-> h]
             ELSE IF r.err # "ok" THEN [err |-> r.err, heap |-> h]
             ELSE ReplayFiles(r.heap, d, Tail(files_data))

RECURSIVE Directory_from_dict(_, _, _)
RECURSIVE ReplayDirectories(_, _, _, _)

\* the loop over data.get("directories", {}).items() of Directory.from_dict
ReplayDirectories(h, d, directories_data, keys) ==
    IF keys = {} THEN [err |-> "ok", heap |-> h]
    ELSE LET sub_dir_name == CHOOSE k \in keys : TRUE
             sub == Directory_from_dict(h, directories_data[sub_dir_name],
                                        Place(d, sub_dir_name))
         IN  IF sub.err # "ok" THEN [err |-> sub.err, heap |-> h]
             ELSE ReplayDirectories(
                      [sub.heap EXCEPT ![sub.id].name = sub_dir_name,
                                       ![d].directories = Put(@, sub_dir_name, sub.id)],
                      d, directories_data, keys \ {sub_dir_name})

\* Directory.from_dict(data); `place` is where the caller will put the result
Directory_from_dict(h, data, place) ==
    LET new_dir == NewId(h, place)
        h0 == Alloc(h, new_dir, <<>>)
        files_data == IF "files" \in DOMAIN data THEN data.files ELSE <<>>
        directories_data ==
            IF "directories" \in DOMAIN data THEN data.directories ELSE EmptyDict
        r1 == ReplayFiles(h0, new_dir, files_data)
        r2 == ReplayDirectories(r1.heap, new_dir, directories_data,
                                DOMAIN directories_data)
    IN  IF r1.err # "ok" THEN [err |-> r1.err, heap |-> h, id |-> None]
        ELSE IF r2.err # "ok" THEN [err |-> r2.err, heap |-> h, id |-> None]
        ELSE [err |-> "ok", heap |-> r2.heap, id |-> new_dir]

----------------------------------------------------------------------------
(* models/file_structure.py *)

\* FileStructure.__eq__ (dataclass): the top-level dict, compared by value
FileStructureValue(h, dirs) == [k \in DOMAIN dirs |-> DirectoryValue(h, dirs[k])]

FileStructure_add_directory(h, dirs, c) ==
    IF h[c].name \in DOMAIN dirs
    THEN [err |-> "ValueError", dirs |-> dirs]
    ELSE [err |-> "ok", dirs |-> Put(dirs, h[c].name, c)]

\* a fault: remove_directory as directories.pop(name, None)
FileStructure_remove_directory_pop(dirs, n) ==
    [err |-> "ok", dirs |-> Del(dirs, n)]

FileStructure_remove_directory(dirs, n) ==
    IF n \notin DOMAIN dirs
    THEN [err |-> "KeyError", dirs |-> dirs]
    ELSE [err |-> "ok", dirs |-> Del(dirs, n)]

\* the loop `for sub_name in parts[1:]` of get_directory_by_path
RECURSIVE Traverse(_, _, _)
Traverse(h, cur, parts) ==
    IF parts = <<>> THEN cur
    ELSE LET nxt == Directory_find_directory(h, cur, Head(parts))
         IN  IF nxt = None THEN None ELSE Traverse(h, nxt, Tail(parts))

\* a fault: get_directory_by_path without strip("/")
FileStructure_get_directory_by_path_nostrip(h, dirs, path) ==
    LET parts == Split(path)
    IN  IF parts = <<>> \/ parts[1] = <<>> THEN None
        ELSE LET cur == Get(dirs, parts[1])
             IN  IF cur = None THEN None ELSE Traverse(h, cur, Tail(parts))

FileStructure_get_directory_by_path(h, dirs, path) ==
    LET parts == Split(Strip(path))
    IN  IF parts = <<>> \/ parts[1] = <<>> THEN None
        ELSE LET cur == Get(dirs, parts[1])
             IN  IF cur = None THEN None ELSE Traverse(h, cur, Tail(parts))

FileStructure_to_dict(h, dirs) ==
    [k \in DOMAIN dirs |-> Directory_to_dict(h, dirs[k])]

\* the loop over data.items() of FileStructure.from_dict
RECURSIVE LoadDirectories(_, _, _, _)
LoadDirectories(h, dirs, data, keys) ==
    IF keys = {} THEN [err |-> "ok", heap |-> h, dirs |-> dirs]
    ELSE LET dir_name == CHOOSE k \in keys : TRUE
             directory_obj == Directory_from_dict(h, data[dir_name],
                                                  Place(None, dir_name))
         IN  IF directory_obj.err # "ok"
             THEN [err |-> directory_obj.err, heap |-> h, dirs |-> dirs]
             ELSE LoadDirectories(directory_obj.heap,
                                  Put(dirs, dir_name, directory_obj.id),
                                  data, keys \ {dir_name})

\* a fresh FileStructure, its objects all new
FileStructure_from_dict(data) == LoadDirectories(<<>>, EmptyDict, data, DOMAIN data)

----------------------------------------------------------------------------
(* services/json_crud.py: the store holds the one document the tool uses *)

json_filename == "file_structure.json"

NoDocument == [exists |-> FALSE, doc |-> EmptyDict]

\* os.listdir filtered to *.json; [] when the enumeration raises
JsonCRUD_list_json_files(store, listdir_raises) ==
    IF listdir_raises THEN {}
    ELSE IF store.exists THEN {json_filename} ELSE {}

JsonCRUD_read_json(store) ==
    IF store.exists THEN [err |-> "ok", data |-> store.doc]
    ELSE [err |-> "FileNotFoundError", data |-> EmptyDict]

JsonCRUD_write_json(store, data) == [exists |-> TRUE, doc |-> data]

----------------------------------------------------------------------------
(* tools/file_structure_tool.py *)

\* save(): a FileStructure is always truthy, so the document is written
FileStructureTool_save(store, h, dirs) ==
    JsonCRUD_write_json(store, FileStructure_to_dict(h, dirs))

\* a fault: the walk leaves its loop at a missing segment (break) and the
\* method goes on with the directory reached so far
RECURSIVE WalkParts_break(_, _, _, _)
WalkParts_break(h, current_dirs, current_dir, parts) ==
    IF parts = <<>> THEN [returned |-> FALSE, dir |-> current_dir]
    ELSE IF Head(parts) \in DOMAIN current_dirs
    THEN WalkParts_break(h, h[current_dirs[Head(parts)]].directories,
                         current_dirs[Head(parts)], Tail(parts))
    ELSE [returned |-> FALSE, dir |-> current_dir]

\* the loop `for part in parts` that each of the four methods starts with;
\* returned: the method printed "Path ... does not exist" and returned
RECURSIVE WalkParts(_, _, _, _)
WalkParts(h, current_dirs, current_dir, parts) ==
    IF parts = <<>> THEN [returned |-> FALSE, dir |-> current_dir]
    ELSE IF Head(parts) \in DOMAIN current_dirs
    THEN WalkParts(h, h[current_dirs[Head(parts)]].directories,
                   current_dirs[Head(parts)], Tail(parts))
    ELSE [returned |-> TRUE, dir |-> None]

ToolWalk(h, dirs, path) == WalkParts(h, dirs, None, Split(Strip(path)))

Unchanged(h, outcome) == [outcome |-> outcome, heap |-> h, save |-> FALSE]

\* a fault: add_directory saves whether or not the add raised (try/finally)
FileStructureTool_add_directory_finally(h, dirs, path, c) ==
    LET w == ToolWalk(h, dirs, path)
        r == Directory_add_directory(h, w.dir, c)
    IN  IF w.returned THEN Unchanged(h, "path_missing")
        ELSE IF w.dir = None THEN Unchanged(h, "dir_missing")
        ELSE [outcome |-> r.err, heap |-> r.heap, save |-> TRUE]

FileStructureTool_add_directory(h, dirs, path, c) ==
    LET w == ToolWalk(h, dirs, path)
        r == Directory_add_directory(h, w.dir, c)
    IN  IF w.returned THEN Unchanged(h, "path_missing")
        ELSE IF w.dir = None THEN Unchanged(h, "dir_missing")
        ELSE IF r.err # "ok" THEN Unchanged(h, r.err)
        ELSE [outcome |-> "ok", heap |-> r.heap, save |-> TRUE]

\* a fault: add_file without the call of save()
FileStructureTool_add_file_nosave(h, dirs, path, n) ==
    LET w == ToolWalk(h, dirs, path)
        r == Directory_add_file(h, w.dir, n)
    IN  IF w.returned THEN Unchanged(h, "path_missing")
        ELSE IF w.dir = None THEN Unchanged(h, "dir_missing")
        ELSE IF r.err # "ok" THEN Unchanged(h, r.err)
        ELSE [outcome |-> "ok", heap |-> r.heap, save |-> FALSE]

FileStructureTool_add_file(h, dirs, path, n) ==
    LET w == ToolWalk(h, dirs, path)
        r == Directory_add_file(h, w.dir, n)
    IN  IF w.returned THEN Unchanged(h, "path_missing")
        ELSE IF w.dir = None THEN Unchanged(h, "dir_missing")
        ELSE IF r.err # "ok" THEN Unchanged(h, r.err)
        ELSE [outcome |-> "ok", heap |-> r.heap, save |-> TRUE]

\* `next((f for f in current_dir.files if f.name == filename), None)` iterates
\* over the keys of the dict, which are strings: the first key, if there is
\* one, raises AttributeError at `f.name`; with no key the result is None.
FileStructureTool_delete_file(h, dirs, path, filename) ==
    LET w == ToolWalk(h, dirs, path)
    IN  IF w.returned THEN Unchanged(h, "path_missing")
        ELSE IF w.dir = None THEN Unchanged(h, "dir_missing")
        ELSE IF h[w.dir].files # <<>> THEN Unchanged(h, "AttributeError")
        ELSE Unchanged(h, "child_missing")

\* a fault: delete_directory without the membership test, so that `del`
\* raises KeyError for a name that is not there
FileStructureTool_delete_directory_del(h, dirs, path, directory_name) ==
    LET w == ToolWalk(h, dirs, path)
    IN  IF w.returned THEN Unchanged(h, "path_missing")
        ELSE IF w.dir = None THEN Unchanged(h, "dir_missing")
        ELSE IF directory_name \in DOMAIN h[w.dir].directories
        THEN [outcome |-> "ok",
              heap |-> [h EXCEPT ![w.dir].directories = Del(@, directory_name)],
              save |-> TRUE]
        ELSE Unchanged(h, "KeyError")

\* a fault: delete_directory saves whether or not it found the subdirectory
FileStructureTool_delete_directory_saves(h, dirs, path, directory_name) ==
    LET w == ToolWalk(h, dirs, path)
    IN  IF w.returned THEN Unchanged(h, "path_missing")
        ELSE IF w.dir = None THEN Unchanged(h, "dir_missing")
        ELSE IF directory_name \in DOMAIN h[w.dir].directories
        THEN [outcome |-> "ok",
              heap |-> [h EXCEPT ![w.dir].directories = Del(@, directory_name)],
              save |-> TRUE]
        ELSE [outcome |-> "child_missing", heap |-> h, save |-> TRUE]

FileStructureTool_delete_directory(h, dirs, path, directory_name) ==
    LET w == ToolWalk(h, dirs, path)
    IN  IF w.returned THEN Unchanged(h, "path_missing")
        ELSE IF w.dir = None THEN Unchanged(h, "dir_missing")
        ELSE IF directory_name \in DOMAIN h[w.dir].directories
        THEN [outcome |-> "ok",
              heap |-> [h EXCEPT ![w.dir].directories = Del(@, directory_name)],
              save |-> TRUE]
        ELSE Unchanged(h, "child_missing")

\* load(): an empty document is falsy and leaves the structure as it is
FileStructureTool_load(store, h, dirs) ==
    LET data == JsonCRUD_read_json(store)
        r == FileStructure_from_dict(data.data)
    IN  IF data.err # "ok" THEN [outcome |-> data.err, heap |-> h, dirs |-> dirs]
        ELSE IF data.data = EmptyDict
        THEN [outcome |-> "no_data", heap |-> h, dirs |-> dirs]
        ELSE IF r.err # "ok" THEN [outcome |-> r.err, heap |-> h, dirs |-> dirs]
        ELSE [outcome |-> "ok", heap |-> r.heap, dirs |-> r.dirs]

\* __init__: load the document if the store lists it, else start empty and save
FileStructureTool_init(store, listdir_raises) ==
    LET r == FileStructure_from_dict(store.doc)
    IN  IF json_filename \in JsonCRUD_list_json_files(store, listdir_raises)
        THEN [outcome |-> r.err, heap |-> r.heap, dirs |-> r.dirs,
              store |-> store, save |-> FALSE]
        ELSE [outcome |-> "ok", heap |-> <<>>, dirs |-> EmptyDict,
              store |-> FileStructureTool_save(store, <<>>, EmptyDict),
              save |-> TRUE]

----------------------------------------------------------------------------
(* What a path denotes: its segments and the container they lead to *)

\* the positions of the separators of a path
SepPos(p) == {i \in 1..Len(p) : p[i] = "/"}

\* the segments of a path: the pieces before, between and after its separators
Segments(p) ==
    LET n == Cardinality(SepPos(p))
        cut == [k \in 0..(n + 1) |->
                   IF k = 0 THEN 0
                   ELSE IF k = n + 1 THEN Len(p) + 1
                   ELSE CHOOSE i \in SepPos(p) :
                            Cardinality({j \in SepPos(p) : j < i}) = k - 1]
    IN  [k \in 1..(n + 1) |-> SubSeq(p, cut[k - 1] + 1, cut[k] - 1)]

\* a list of segments without its empty leading and trailing segments
TrimEmpty(segs) ==
    LET full == {i \in 1..Len(segs) : segs[i] # <<>>}
    IN  IF full = {} THEN <<>>
        ELSE SubSeq(segs,
                    CHOOSE i \in full : \A j \in full : i <= j,
                    CHOOSE i \in full : \A j \in full : j <= i)

\* the segments of every path given to the program, without the empty
\* leading and trailing ones, as a table computed once
PathSegments == [p \in Paths \cup ToolPaths |-> TrimEmpty(Segments(p))] @@ <<>>

\* the container reached by looking up the first segment among the top-level
\* directories and each later segment among the subdirectories of the node
\* reached so far; None if the path is empty or a segment is missing
Reached(h, dirs, p) ==
    LET segs == PathSegments[p]
        node[i \in 1..Len(segs)] ==
            IF i = 1 THEN Get(dirs, segs[1])
            ELSE IF node[i - 1] = None THEN None
            ELSE Get(h[node[i - 1]].directories, segs[i])
    IN  IF segs = <<>> THEN None ELSE node[Len(segs)]

----------------------------------------------------------------------------
(* The calls made on the model classes *)

\* op, name, outcome: the call, the name it was given and how it ended;
\* dir: the container it was made on or, for the facade, the container its
\* path denotes; segs: the number of segments of that path; path, ret: the
\* argument and result of get_directory_by_path; saved: the call wrote the
\* document; readd: it adds what the call before it removed
NoCall == [op |-> "none", dir |-> None, name |-> <<>>, path |-> <<>>, segs |-> 0,
           outcome |-> "ok", saved |-> FALSE, readd |-> FALSE, ret |-> None]

Call(op, d, n, outcome) ==
    [NoCall EXCEPT !.op = op, !.dir = d, !.name = n, !.outcome = outcome]

\* the call re-adds the name the previous call removed from the same container
ReAdds(removeOp, d, n) ==
    last.op = removeOp /\ last.dir = d /\ last.name = n /\ last.outcome = "ok"

RECURSIVE CountFiles(_, _)
CountFiles(h, S) ==
    IF S = {} THEN 0
    ELSE LET i == CHOOSE j \in S : TRUE
         IN  Len(h[i].files) + CountFiles(h, S \ {i})

\* the structure stays within the bounds
Fits(h) == Cardinality(DOMAIN h) <= MaxObj /\ CountFiles(h, DOMAIN h) <= MaxFiles

\* file_structure.add_directory(Directory(name=n))
FsAddDirectory(n) ==
    LET c == NewId(heap, Place(None, n))
        r == FileStructure_add_directory(Alloc(heap, c, n), fs, c)
    IN  /\ pc = "ready"
        /\ fs' = r.dirs
        /\ heap' = Collect(Alloc(heap, c, n), r.dirs)
        /\ Fits(heap')
        /\ last' = [Call("fs_add_directory", None, n, r.err)
                        EXCEPT !.readd = ReAdds("fs_remove_directory", None, n)]
        /\ UNCHANGED <<disk, pc>>

\* file_structure.remove_directory(n)
FsRemoveDirectory(n) ==
    LET r == FileStructure_remove_directory(fs, n)
    IN  /\ pc = "ready"
        /\ fs' = r.dirs
        /\ heap' = Collect(heap, r.dirs)
        /\ last' = Call("fs_remove_directory", None, n, r.err)
        /\ UNCHANGED <<disk, pc>>

\* d.add_directory(Directory(name=n)), d a directory of the structure
DirAddDirectory(d, n) ==
    LET c == NewId(heap, Place(d, n))
        r == Directory_add_directory(Alloc(heap, c, n), d, c)
    IN  /\ pc = "ready"
        /\ d \in DOMAIN heap
        /\ heap' = Collect(r.heap, fs)
        /\ Fits(heap')
        /\ last' = [Call("add_directory", d, n, r.err)
                        EXCEPT !.readd = ReAdds("remove_directory", d, n)]
        /\ UNCHANGED <<fs, disk, pc>>

\* d.remove_directory(n)
DirRemoveDirectory(d, n) ==
    LET r == Directory_remove_directory(heap, d, n)
    IN  /\ pc = "ready"
        /\ d \in DOMAIN heap
        /\ heap' = Collect(r.heap, fs)
        /\ last' = Call("remove_directory", d, n, r.err)
        /\ UNCHANGED <<fs, disk, pc>>

\* d.add_file(File(name=n))
DirAddFile(d, n) ==
    LET r == Directory_add_file(heap, d, n)
    IN  /\ pc = "ready"
        /\ d \in DOMAIN heap
        /\ heap' = r.heap
        /\ Fits(heap')
        /\ last' = [Call("add_file", d, n, r.err)
                        EXCEPT !.readd = ReAdds("remove_file", d, n)]
        /\ UNCHANGED <<fs, disk, pc>>

\* d.remove_file(n)
DirRemoveFile(d, n) ==
    LET r == Directory_remove_file(heap, d, n)
    IN  /\ pc = "ready"
        /\ d \in DOMAIN heap
        /\ heap' = r.heap
        /\ last' = Call("remove_file", d, n, r.err)
        /\ UNCHANGED <<fs, disk, pc>>

\* file_structure.get_directory_by_path(p)
GetDirectoryByPath(p) ==
    /\ pc = "ready"
    /\ last' = [NoCall EXCEPT !.op = "get_directory_by_path", !.path = p,
                              !.ret = FileStructure_get_directory_by_path(heap, fs, p)]
    /\ UNCHANGED <<heap, fs, disk, pc>>

\* file_structure = FileStructure.from_dict(file_structure.to_dict())
RoundTrip ==
    LET r == FileStructure_from_dict(FileStructure_to_dict(heap, fs))
    IN  /\ pc = "ready"
        /\ heap' = IF r.err = "ok" THEN r.heap ELSE heap
        /\ fs' = IF r.err = "ok" THEN r.dirs ELSE fs
        /\ last' = [NoCall EXCEPT !.op = "from_dict", !.outcome = r.err]
        /\ UNCHANGED <<disk, pc>>

\* a FileStructure() in use without the facade
Init ==
    /\ heap = <<>>
    /\ fs = EmptyDict
    /\ disk = NoDocument
    /\ pc = "ready"
    /\ last = NoCall

\* the directories of the structure that calls are made on or with
Held == (DOMAIN heap) \cap Ids

\* the container operations of Directory and FileStructure
Next ==
    \/ \E n \in DirNames : FsAddDirectory(n)
    \/ \E n \in DirNames : FsRemoveDirectory(n)
    \/ \E d \in Held, n \in DirNames : DirAddDirectory(d, n)
    \/ \E d \in Held, n \in DirNames : DirRemoveDirectory(d, n)
    \/ \E d \in Held, n \in FileNames : DirAddFile(d, n)
    \/ \E d \in Held, n \in FileNames : DirRemoveFile(d, n)

Spec == Init /\ [][Next]_vars

\* building a structure and serializing it there and back
SerialNext ==
    \/ \E n \in DirNames : FsAddDirectory(n)
    \/ \E d \in Ids, n \in DirNames : DirAddDirectory(d, n)
    \/ \E d \in Ids, n \in FileNames : DirAddFile(d, n)
    \/ RoundTrip

SerialSpec == Init /\ [][SerialNext]_vars

\* building a structure of directories, the empty name among their names,
\* and resolving paths in it
PathNext ==
    \/ \E n \in PathDirNames : FsAddDirectory(n)
    \/ \E n \in PathDirNames : FsRemoveDirectory(n)
    \/ \E d \in Ids, n \in PathDirNames : DirAddDirectory(d, n)
    \/ \E d \in Ids, n \in PathDirNames : DirRemoveDirectory(d, n)
    \/ \E p \in Paths : GetDirectoryByPath(p)

PathSpec == Init /\ [][PathNext]_vars

----------------------------------------------------------------------------
(* The calls made on the facade *)

ToolCall(op, p, n, outcome, saved) ==
    [NoCall EXCEPT !.op = op, !.name = n, !.outcome = outcome, !.saved = saved,
                   !.dir = Reached(heap, fs, p),
                   !.segs = Len(PathSegments[p])]

\* tool = FileStructureTool(json_directory), in a new process
Construct(listdir_raises) ==
    LET r == FileStructureTool_init(disk, listdir_raises)
    IN  /\ pc' = IF r.outcome = "ok" THEN "ready" ELSE "failed"
        /\ heap' = r.heap
        /\ fs' = r.dirs
        /\ disk' = r.store
        /\ last' = [NoCall EXCEPT !.op = "init", !.outcome = r.outcome,
                                  !.saved = r.save]

\* tool.save()
ToolSave ==
    /\ pc = "ready"
    /\ disk' = FileStructureTool_save(disk, heap, fs)
    /\ last' = [NoCall EXCEPT !.op = "save", !.saved = TRUE]
    /\ pc' = "returned"
    /\ UNCHANGED <<heap, fs>>

\* tool.load()
ToolLoad ==
    LET r == FileStructureTool_load(disk, heap, fs)
    IN  /\ pc = "ready"
        /\ heap' = r.heap
        /\ fs' = r.dirs
        /\ last' = [NoCall EXCEPT !.op = "load", !.outcome = r.outcome]
        /\ pc' = "returned"
        /\ UNCHANGED disk

\* what a facade method leaves behind
ToolEffect(op, p, n, r) ==
    /\ heap' = Collect(r.heap, fs)
    /\ Fits(heap')
    /\ disk' = IF r.save THEN FileStructureTool_save(disk, heap', fs) ELSE disk
    /\ last' = ToolCall(op, p, n, r.outcome, r.save)
    /\ pc' = "returned"
    /\ UNCHANGED fs

\* tool.add_directory(p, Directory(name=n))
ToolAddDirectory(p, n) ==
    LET c == NewId(heap, Place(ToolWalk(heap, fs, p).dir, n))
    IN  /\ pc = "ready"
        /\ ToolEffect("tool_add_directory", p, n,
                      FileStructureTool_add_directory(Alloc(heap, c, n), fs, p, c))

\* tool.add_file(p, File(name=n))
ToolAddFile(p, n) ==
    /\ pc = "ready"
    /\ ToolEffect("tool_add_file", p, n,
                  FileStructureTool_add_file(heap, fs, p, n))

\* tool.delete_file(p, n)
ToolDeleteFile(p, n) ==
    /\ pc = "ready"
    /\ ToolEffect("tool_delete_file", p, n,
                  FileStructureTool_delete_file(heap, fs, p, n))

\* tool.delete_directory(p, n)
ToolDeleteDirectory(p, n) ==
    /\ pc = "ready"
    /\ ToolEffect("tool_delete_directory", p, n,
                  FileStructureTool_delete_directory(heap, fs, p, n))

\* the caller of a facade method goes on to its next statement
Return ==
    /\ pc = "returned"
    /\ pc' = "ready"
    /\ last' = NoCall
    /\ UNCHANGED <<heap, fs, disk>>

\* {"a": {"files": [{"name": "x"}],
\*        "directories": {"a": {"files": [], "directories": {}}}}}
DocNested ==
    (<<"a">> :> [files |-> <<[name |-> <<"x">>]>>,
                 directories |->
                     (<<"a">> :> [files |-> <<>>, directories |-> EmptyDict])])

\* {"a": {"files": [{"name": "x"}, {"name": "x"}], "directories": {}}}
DocTwice ==
    (<<"a">> :> [files |-> <<[name |-> <<"x">>], [name |-> <<"x">>]>>,
                 directories |-> EmptyDict])

\* the store before the first run: no document, or one left there
ToolInit ==
    /\ heap = <<>>
    /\ fs = EmptyDict
    /\ disk \in {NoDocument} \cup
                {[exists |-> TRUE, doc |-> d] : d \in {EmptyDict, DocNested, DocTwice}}
    /\ pc = "new"
    /\ last = NoCall

\* the facade, and the top-level adds made on tool.file_structure
ToolNext ==
    \/ \E b \in BOOLEAN : Construct(b)
    \/ ToolSave
    \/ ToolLoad
    \/ Return
    \/ \E n \in PathDirNames : FsAddDirectory(n)
    \/ \E p \in ToolPaths, n \in PathDirNames : ToolAddDirectory(p, n)
    \/ \E p \in ToolPaths, n \in FileNames : ToolAddFile(p, n)
    \/ \E p \in ToolPaths, n \in FileNames : ToolDeleteFile(p, n)
    \/ \E p \in ToolPaths, n \in PathDirNames : ToolDeleteDirectory(p, n)

ToolSpec == ToolInit /\ [][ToolNext]_vars

----------------------------------------------------------------------------
(* Claims about the containers *)

\* the keys of the `directories` dict of container d (None: the FileStructure)
DirKeys(h, dirs, d) == IF d = None THEN DOMAIN dirs ELSE DOMAIN h[d].directories

\* the keys of the `files` dict of directory d
FileKeys(h, d) == {h[d].files[i] : i \in 1..Len(h[d].files)}

\* the keys, before and after the last call, of the dict the call was about
KeysBefore ==
    IF last'.op \in {"add_file", "remove_file"}
    THEN FileKeys(heap, last'.dir) ELSE DirKeys(heap, fs, last'.dir)

KeysAfter ==
    IF last'.op \in {"add_file", "remove_file"}
    THEN FileKeys(heap', last'.dir) ELSE DirKeys(heap', fs', last'.dir)

AddOps == {"fs_add_directory", "add_directory", "add_file"}
RemoveOps == {"fs_remove_directory", "remove_directory", "remove_file"}

\* C1: in any container (a Directory or the FileStructure), adding a file
\* (resp. directory) succeeds if and only if its name is not yet a key of the
\* files (resp. directories) dict; a successful add inserts exactly that key,
\* a failed one raises ValueError and inserts nothing. So adding A, then B # A,
\* then A again succeeds, succeeds and fails.
C1_AddSucceedsIffAbsent ==
    [][last'.op \in AddOps =>
          IF last'.name \notin KeysBefore
          THEN last'.outcome = "ok" /\ KeysAfter = KeysBefore \cup {last'.name}
          ELSE last'.outcome = "ValueError" /\ KeysAfter = KeysBefore]_vars

\* a second add of a name to a directory that holds two subdirectories has failed
C1_Witness ==
    /\ last.op = "add_directory"
    /\ last.outcome = "ValueError"
    /\ Cardinality(DOMAIN heap[last.dir].directories) = 2

\* C2: removing a name that is not a key fails with KeyError and removes
\* nothing; removing a key removes exactly that key; and an add of the name
\* that the previous call removed from the same container succeeds.
C2_RemoveThenAddAgain ==
    [][/\ last'.op \in RemoveOps =>
            IF last'.name \notin KeysBefore
            THEN last'.outcome = "KeyError" /\ KeysAfter = KeysBefore
            ELSE last'.outcome = "ok" /\ KeysAfter = KeysBefore \ {last'.name}
       /\ last'.readd => last'.outcome = "ok"]_vars

\* a file was removed from a directory and added to it again, next to another
C2_Witness ==
    /\ last.op = "add_file"
    /\ last.readd
    /\ last.outcome = "ok"
    /\ Len(heap[last.dir].files) = 2

\* C3: FileStructure.from_dict(T.to_dict()) equals T: the same files in the
\* same containers, the same nesting, and every directory, top-level or
\* nested, with the name it had.
C3_RoundTrip ==
    [][last'.op = "from_dict" =>
          /\ last'.outcome = "ok"
          /\ FileStructureValue(heap', fs') = FileStructureValue(heap, fs)]_vars

----------------------------------------------------------------------------
(* Claims about path resolution *)

\* C4: get_directory_by_path returns the container reached by the path's
\* segments (empty leading and trailing segments discarded), and None, without
\* raising, if the first segment is no top-level directory, a later segment no
\* subdirectory of the node reached, or the path empty.
C4_PathResolution ==
    last.op = "get_directory_by_path" =>
        /\ last.outcome = "ok"
        /\ last.ret = Reached(heap, fs, last.path)

\* a path of three segments was resolved to the innermost of three directories
C4_Witness ==
    /\ last.op = "get_directory_by_path"
    /\ Len(PathSegments[last.path]) = 3
    /\ last.ret # None

\* a path whose second segment is missing under an existing first one gave None
C4_WitnessAbsent ==
    /\ last.op = "get_directory_by_path"
    /\ Len(PathSegments[last.path]) = 2
    /\ Get(fs, PathSegments[last.path][1]) # None
    /\ last.ret = None

----------------------------------------------------------------------------
(* Claims about the facade *)

\* the structure a document deserializes to
Deserialized(doc) ==
    LET r == FileStructure_from_dict(doc) IN FileStructureValue(r.heap, r.dirs)

\* the record a document holds at the position a list of segments gives
DocAt(doc, segs) ==
    LET node[i \in 1..Len(segs)] ==
            IF i = 1 THEN doc[segs[1]] ELSE node[i - 1].directories[segs[i]]
    IN  node[Len(segs)]

\* the paths given to the facade that denote container d
PathsTo(h, dirs, d) == {p \in ToolPaths : Reached(h, dirs, p) = d}

\* the document is the whole structure as it now is
Persisted == disk' = [exists |-> TRUE, doc |-> FileStructure_to_dict(heap', fs')]

\* nothing in memory or in the store changed, and nothing was written
NothingDone == heap' = heap /\ fs' = fs /\ disk' = disk /\ ~last'.saved

ToolAdds == {"tool_add_directory", "tool_add_file"}
ToolMutations == ToolAdds \cup {"tool_delete_file", "tool_delete_directory"}

\* C5: when the store holds file_structure.json, construction makes the
\* facade's structure the deserialization of that document and does not
\* rewrite the document; when it holds none, the facade starts with an empty
\* structure and persists it; either way the document exists afterwards.
C5_Construction ==
    [][(last'.op = "init" /\ last'.outcome = "ok") =>
          /\ IF disk.exists
             THEN /\ FileStructureValue(heap', fs') = Deserialized(disk.doc)
                  /\ disk' = disk
                  /\ ~last'.saved
             ELSE /\ fs' = EmptyDict
                  /\ disk' = [exists |-> TRUE, doc |-> EmptyDict]
          /\ disk'.exists]_vars

\* C6: a facade mutation whose path has a segment that is missing at its
\* level reports the failure without raising, changes nothing in memory,
\* writes nothing, and leaves the document as it was.
C6_UnresolvedPathIsNoOp ==
    [][(last'.op \in ToolMutations /\ last'.segs > 0 /\ last'.dir = None) =>
          last'.outcome = "path_missing" /\ NothingDone]_vars

\* add_directory was given a path of two segments that leads nowhere, with a
\* structure in memory and a document in the store
C6_Witness ==
    /\ last.op = "tool_add_directory"
    /\ last.segs = 2
    /\ last.dir = None
    /\ last.outcome = "path_missing"
    /\ fs # EmptyDict
    /\ disk.exists

\* C7: add_file / add_directory with a path that denotes a container holding
\* no child of that kind and name adds the child to exactly that container
\* and then persists the whole structure: the document shows the child at the
\* position the path gives.
C7_AddAtPath ==
    [][(/\ last'.op \in ToolAdds
        /\ last'.dir # None
        /\ last'.name \notin (IF last'.op = "tool_add_file"
                              THEN FileKeys(heap, last'.dir)
                              ELSE DirKeys(heap, fs, last'.dir))) =>
          LET t == last'.dir
              n == last'.name
          IN  /\ last'.outcome = "ok"
              /\ fs' = fs
              /\ IF last'.op = "tool_add_file"
                 THEN heap' = [heap EXCEPT ![t].files = Append(@, n)]
                 ELSE \E c \in (DOMAIN heap') \ (DOMAIN heap) :
                          heap' = [i \in (DOMAIN heap) \cup {c} |->
                                      IF i = c THEN NewDirectory(n)
                                      ELSE IF i = t
                                      THEN [heap[t] EXCEPT
                                               !.directories = Put(@, n, c)]
                                      ELSE heap[i]]
              /\ last'.saved
              /\ Persisted
              /\ \A p \in PathsTo(heap, fs, t) :
                     LET rec == DocAt(disk'.doc, PathSegments[p])
                     IN  IF last'.op = "tool_add_file"
                         THEN \E i \in 1..Len(rec.files) :
                                  rec.files[i] = [name |-> n]
                         ELSE /\ n \in DOMAIN rec.directories
                              /\ rec.directories[n] =
                                     [files |-> <<>>, directories |-> EmptyDict]]_vars

\* add_file("a/a", File("x")) was called and the document shows x under
\* a.directories.a.files
C7_Witness ==
    /\ last.op = "tool_add_file"
    /\ last.outcome = "ok"
    /\ last.segs = 2
    /\ last.name = <<"x">>
    /\ <<"a">> \in DOMAIN disk.doc
    /\ <<"a">> \in DOMAIN disk.doc[<<"a">>].directories
    /\ disk.doc[<<"a">>].directories[<<"a">>].files = <<[name |-> <<"x">>]>>

\* C8: delete_file with a path that denotes a container removes the file and
\* persists the structure if the container has a file of that name, and, if
\* it has none, reports the failure without raising and without saving,
\* whatever other files the container holds.
C8_DeleteFile ==
    [][(last'.op = "tool_delete_file" /\ last'.dir # None) =>
          IF last'.name \in FileKeys(heap, last'.dir)
          THEN /\ last'.outcome = "ok"
               /\ heap' = [heap EXCEPT ![last'.dir].files =
                              SelectSeq(@, LAMBDA f : f # last'.name)]
               /\ last'.saved
               /\ Persisted
          ELSE last'.outcome = "child_missing" /\ NothingDone]_vars

\* C9: delete_directory with a path that denotes a container removes the
\* subdirectory of that name, with all its descendants, and persists the
\* structure; if the container has no such subdirectory it reports the
\* failure without raising, changes nothing and does not save.
C9_DeleteDirectory ==
    [][(last'.op = "tool_delete_directory" /\ last'.dir # None) =>
          LET t == last'.dir
              n == last'.name
          IN  IF n \in DOMAIN heap[t].directories
              THEN LET gone == ReachFrom(heap, {heap[t].directories[n]})
                   IN  /\ last'.outcome = "ok"
                       /\ fs' = fs
                       /\ DOMAIN heap' = (DOMAIN heap) \ gone
                       /\ \A i \in DOMAIN heap' :
                              heap'[i] = IF i = t
                                         THEN [heap[t] EXCEPT
                                                  !.directories = Del(@, n)]
                                         ELSE heap[i]
                       /\ last'.saved
                       /\ Persisted
              ELSE last'.outcome = "child_missing" /\ NothingDone]_vars

\* delete_directory removed a subdirectory and the document no longer has it
C9_Witness ==
    /\ last.op = "tool_delete_directory"
    /\ last.outcome = "ok"
    /\ last.dir # None
    /\ last.name \notin DOMAIN heap[last.dir].directories
    /\ disk.doc = FileStructure_to_dict(heap, fs)

\* delete_directory found the container but no subdirectory of that name
C9_WitnessAbsent ==
    /\ last.op = "tool_delete_directory"
    /\ last.outcome = "child_missing"
    /\ last.dir # None

\* C10: add_file / add_directory with a path that denotes a container which
\* already holds a child of that kind and name raises ValueError to the
\* caller, changes nothing in memory and writes nothing.
C10_DuplicateRaises ==
    [][(/\ last'.op \in ToolAdds
        /\ last'.dir # None
        /\ last'.name \in (IF last'.op = "tool_add_file"
                           THEN FileKeys(heap, last'.dir)
                           ELSE DirKeys(heap, fs, last'.dir))) =>
          last'.outcome = "ValueError" /\ NothingDone]_vars

\* add_directory was refused a name its target already holds
C10_Witness ==
    /\ last.op = "tool_add_directory"
    /\ last.outcome = "ValueError"
    /\ last.dir # None
    /\ last.name \in DOMAIN heap[last.dir].directories

----------------------------------------------------------------------------
(* Claims about the facade's walk, the format and the ownership *)

\* C11: for every structure and every path string, the walk the facade
\* methods start with reaches a container if and only if
\* get_directory_by_path returns one, and then it is the same container;
\* empty paths, paths with empty segments and directories whose name is the
\* empty string included.
C11_WalkResolvesLikeGetDirectoryByPath ==
    \A p \in ToolPaths :
        LET w == ToolWalk(heap, fs, p)
        IN  (IF w.returned THEN None ELSE w.dir) =
                FileStructure_get_directory_by_path(heap, fs, p)

\* the record to_dict gives for the files of directory d
SerializedFiles(h, d) == Directory_to_dict(h, d).files

\* the document of a structure that is one top-level directory "a" holding
\* the one file "x": {"a": {"files": [{"name": "x"}], "directories": {}}}
DocOneFile ==
    (<<"a">> :> [files |-> <<[name |-> <<"x">>]>>, directories |-> EmptyDict])

\* C12: Directory.to_dict gives a record with exactly the keys `files` and
\* `directories`; `files` is the sequence of the {"name": n} records of the
\* directory's files in the order they were inserted (an add appends, a remove
\* takes one out and keeps the order of the rest, nothing else changes it);
\* `directories` maps each subdirectory's name to that subdirectory's record;
\* FileStructure.to_dict maps each top-level name to its directory's record.
\* So a structure of one top-level directory with one file serializes to
\* {name: {"files": [{"name": file}], "directories": {}}}.
C12_SerializationFormat ==
    [][/\ \A d \in DOMAIN heap' :
              LET rec == Directory_to_dict(heap', d)
              IN  /\ DOMAIN rec = {"files", "directories"}
                  /\ DOMAIN rec.files = 1..Len(heap'[d].files)
                  /\ \A i \in DOMAIN rec.files :
                         rec.files[i] = [name |-> heap'[d].files[i]]
                  /\ DOMAIN rec.directories = DOMAIN heap'[d].directories
                  /\ \A k \in DOMAIN rec.directories :
                         rec.directories[k] =
                             Directory_to_dict(heap', heap'[d].directories[k])
       /\ LET doc == FileStructure_to_dict(heap', fs')
          IN  /\ DOMAIN doc = DOMAIN fs'
              /\ \A k \in DOMAIN doc : doc[k] = Directory_to_dict(heap', fs'[k])
       /\ \A d \in (DOMAIN heap) \cap (DOMAIN heap') :
              SerializedFiles(heap', d) =
                  IF last'.dir = d /\ last'.outcome = "ok" /\ last'.op = "add_file"
                  THEN Append(SerializedFiles(heap, d), [name |-> last'.name])
                  ELSE IF last'.dir = d /\ last'.outcome = "ok"
                          /\ last'.op = "remove_file"
                  THEN SelectSeq(SerializedFiles(heap, d),
                                 LAMBDA f : f.name # last'.name)
                  ELSE SerializedFiles(heap, d)
       /\ (/\ DOMAIN fs' = {<<"a">>}
           /\ heap'[fs'[<<"a">>]].files = <<<<"x">>>>
           /\ heap'[fs'[<<"a">>]].directories = EmptyDict)
              => FileStructure_to_dict(heap', fs') = DocOneFile]_vars

\* a file was added to a directory that holds an earlier file and a
\* subdirectory: its record comes second in `files`
C12_Witness ==
    /\ last.op = "add_file"
    /\ last.outcome = "ok"
    /\ last.dir \in Range(fs)
    /\ heap[last.dir].directories # EmptyDict
    /\ Len(heap[last.dir].files) = 2
    /\ heap[last.dir].files[2] = last.name
    /\ FileStructure_to_dict(heap, fs)[heap[last.dir].name].files[2] =
           [name |-> last.name]

----------------------------------------------------------------------------
(* Adds of a Directory object that the structure already holds *)

\* file_structure.add_directory(c), c a directory of the structure
FsAddExisting(c) ==
    LET r == FileStructure_add_directory(heap, fs, c)
    IN  /\ pc = "ready"
        /\ c \in DOMAIN heap
        /\ fs' = r.dirs
        /\ heap' = heap
        /\ last' = Call("fs_add_directory", None, heap[c].name, r.err)
        /\ UNCHANGED <<disk, pc>>

\* d.add_directory(c), d and c directories of the structure, d = c included
DirAddExisting(d, c) ==
    LET r == Directory_add_directory(heap, d, c)
    IN  /\ pc = "ready"
        /\ d \in DOMAIN heap
        /\ c \in DOMAIN heap
        /\ heap' = r.heap
        /\ last' = Call("add_directory", d, heap[c].name, r.err)
        /\ UNCHANGED <<fs, disk, pc>>

\* such a structure stays within its bound
OwnFits == Cardinality(DOMAIN heap') <= MaxOwnObj

\* the container operations, the directory given to an add being a new
\* object or one the structure already holds
OwnNext ==
    \/ \E n \in DirNames : FsAddDirectory(n) /\ OwnFits
    \/ \E n \in DirNames : FsRemoveDirectory(n) /\ OwnFits
    \/ \E d \in Held, n \in DirNames : DirAddDirectory(d, n) /\ OwnFits
    \/ \E d \in Held, n \in DirNames : DirRemoveDirectory(d, n) /\ OwnFits
    \/ \E d \in Held, n \in FileNames : DirAddFile(d, n) /\ OwnFits
    \/ \E c \in Held : FsAddExisting(c) /\ OwnFits
    \/ \E d \in Held, c \in Held : DirAddExisting(d, c) /\ OwnFits

OwnSpec == Init /\ [][OwnNext]_vars

\* the container operations on a structure of at most MaxOwnObj directories,
\* every directory added being a new object
FormatNext ==
    \/ \E n \in DirNames : FsAddDirectory(n) /\ OwnFits
    \/ \E n \in DirNames : FsRemoveDirectory(n)
    \/ \E d \in Held, n \in DirNames : DirAddDirectory(d, n) /\ OwnFits
    \/ \E d \in Held, n \in DirNames : DirRemoveDirectory(d, n)
    \/ \E d \in Held, n \in FileNames : DirAddFile(d, n)
    \/ \E d \in Held, n \in FileNames : DirRemoveFile(d, n)

FormatSpec == Init /\ [][FormatNext]_vars

\* the dict entries that hold directory c: <<container, key>>, the container
\* None for the top-level dict
Owners(h, dirs, c) ==
    {<<None, k>> : k \in {x \in DOMAIN dirs : dirs[x] = c}}
        \cup UNION {{<<d, k>> : k \in {x \in DOMAIN h[d].directories :
                                          h[d].directories[x] = c}} :
                    d \in DOMAIN h}

\* C14: in every state reached by adds and removes on directories and on the
\* structure, each directory is held by at most one dict entry (so no
\* directory is reached from the top level by two walks) and no directory is
\* among its own descendants (so to_dict's recursion ends).
C14_ExclusiveOwnership ==
    \A c \in DOMAIN heap :
        /\ Cardinality(Owners(heap, fs, c)) <= 1
        /\ c \notin ReachFrom(heap, Range(heap[c].directories))

\* C13: after a successful remove_directory(n) on a directory or on the
\* structure, the directory removed and all its descendants are no longer
\* part of the structure (nothing that is serialized or that a path resolves
\* to), n is no longer a key of the container, and every other directory,
\* with its files, is as it was.
C13_RemovalCascades ==
    [][(/\ last'.op \in {"remove_directory", "fs_remove_directory"}
        /\ last'.outcome = "ok") =>
          LET t == last'.dir
              n == last'.name
              removed == IF t = None THEN fs[n] ELSE heap[t].directories[n]
              gone == ReachFrom(heap, {removed})
          IN  /\ gone \cap ReachFrom(heap', Range(fs')) = {}
              /\ n \notin DirKeys(heap', fs', t)
              /\ fs' = IF t = None THEN Del(fs, n) ELSE fs
              /\ \A i \in (DOMAIN heap) \ gone :
                     /\ i \in DOMAIN heap'
                     /\ heap'[i] = IF i = t
                                   THEN [heap[t] EXCEPT !.directories = Del(@, n)]
                                   ELSE heap[i]]_vars

----------------------------------------------------------------------------
(* The facade with a store whose writes can fail *)

\* write_json when open() or json.dump raises: the exception is logged and
\* raised again; the document is as it was (open failed), or it was opened
\* for writing and left truncated
JsonCRUD_write_json_raises(store) ==
    {store, [exists |-> TRUE, doc |-> EmptyDict, truncated |-> TRUE]}

\* what a facade method leaves behind when its save() raises: the exception
\* reaches the caller, whose run ends with it
ToolWriteFails(op, p, n, r) ==
    /\ r.save
    /\ heap' = Collect(r.heap, fs)
    /\ Fits(heap')
    /\ disk' \in JsonCRUD_write_json_raises(disk)
    /\ last' = ToolCall(op, p, n, "OSError", FALSE)
    /\ pc' = "failed"
    /\ UNCHANGED fs

\* tool.add_directory(p, Directory(name=n)), the write failing
ToolAddDirectoryWriteFails(p, n) ==
    LET c == NewId(heap, Place(ToolWalk(heap, fs, p).dir, n))
    IN  /\ pc = "ready"
        /\ ToolWriteFails("tool_add_directory", p, n,
                          FileStructureTool_add_directory(Alloc(heap, c, n), fs, p, c))

\* tool.add_file(p, File(name=n)), the write failing
ToolAddFileWriteFails(p, n) ==
    /\ pc = "ready"
    /\ ToolWriteFails("tool_add_file", p, n,
                      FileStructureTool_add_file(heap, fs, p, n))

\* tool.delete_directory(p, n), the write failing
ToolDeleteDirectoryWriteFails(p, n) ==
    /\ pc = "ready"
    /\ ToolWriteFails("tool_delete_directory", p, n,
                      FileStructureTool_delete_directory(heap, fs, p, n))

\* one run of the facade: constructed once, then top-level adds and facade
\* methods, every write of the document succeeding or failing
WriteNext ==
    \/ \E b \in BOOLEAN : pc = "new" /\ Construct(b)
    \/ Return
    \/ \E n \in PathDirNames : FsAddDirectory(n)
    \/ \E p \in ToolPaths, n \in PathDirNames : ToolAddDirectory(p, n)
    \/ \E p \in ToolPaths, n \in FileNames : ToolAddFile(p, n)
    \/ \E p \in ToolPaths, n \in FileNames : ToolDeleteFile(p, n)
    \/ \E p \in ToolPaths, n \in PathDirNames : ToolDeleteDirectory(p, n)
    \/ \E p \in ToolPaths, n \in PathDirNames : ToolAddDirectoryWriteFails(p, n)
    \/ \E p \in ToolPaths, n \in FileNames : ToolAddFileWriteFails(p, n)
    \/ \E p \in ToolPaths, n \in PathDirNames : ToolDeleteDirectoryWriteFails(p, n)

WriteSpec == ToolInit /\ [][WriteNext]_vars

\* the document is the serialization of the structure in memory
InSync(h, dirs, store) ==
    store = [exists |-> TRUE, doc |-> FileStructure_to_dict(h, dirs)]

\* a facade mutation writes only after it has changed the structure in
\* memory, and what it writes is the structure as changed
WritesAfterMutation ==
    /\ last'.saved =>
           last'.outcome = "ok" /\ heap' # heap /\ InSync(heap', fs', disk')
    /\ disk' # disk => heap' # heap

\* C15 as stated: every facade mutation resolves, mutates, persists and
\* returns in that order, so that a write happens only after a successful
\* mutation in memory; and if the document was the serialization of the
\* structure before the call, it is so again when the call returns or raises.
C15_InSyncWhenReturnsOrRaises ==
    [][last'.op \in ToolMutations =>
          /\ WritesAfterMutation
          /\ InSync(heap, fs, disk) => InSync(heap', fs', disk')]_vars

\* C15, amended: the order is as stated, and a document that was the
\* serialization of the structure before the call is so again when the call
\* returns or raises before its save() (ValueError, AttributeError); when the
\* write itself raises, the mutation stays in memory and the document does not
\* show it.
C15_InSyncUnlessWriteFails ==
    [][last'.op \in ToolMutations =>
          /\ WritesAfterMutation
          /\ (InSync(heap, fs, disk) /\ last'.outcome # "OSError")
                 => InSync(heap', fs', disk')
          /\ last'.outcome = "OSError" => heap' # heap
          /\ (InSync(heap, fs, disk) /\ last'.outcome = "OSError")
                 => ~InSync(heap', fs', disk')]_vars

\* an add raised ValueError on a structure whose document is its serialization
C15_Witness ==
    /\ last.op \in ToolAdds
    /\ last.outcome = "ValueError"
    /\ fs # EmptyDict
    /\ InSync(heap, fs, disk)

----------------------------------------------------------------------------
(* The structure of the demonstration: names that contain the separator *)

\* the names given to directories: "a", and "a/a" as main.py names its
\* top-level directories "f:/langchain_project" and "f:/langchain"
DemoNames == {<<"a">>, <<"a", "/", "a">>}

\* the structure built as setup_initial_structure builds it: one top-level
\* directory names[1], holding names[2], holding names[3]
DemoHeap(names) ==
    [i \in 1..Len(names) |->
        [name |-> names[i], files |-> <<>>,
         directories |-> IF i < Len(names)
                         THEN Put(EmptyDict, names[i + 1], i + 1)
                         ELSE EmptyDict]]

DemoInit ==
    /\ \E names \in UNION {[1..k -> DemoNames] : k \in 1..MaxObj} :
           /\ heap = DemoHeap(names)
           /\ fs = Put(EmptyDict, names[1], 1)
    /\ disk = NoDocument
    /\ pc = "ready"
    /\ last = NoCall

DemoNext == \E p \in Paths : GetDirectoryByPath(p)

DemoSpec == DemoInit /\ [][DemoNext]_vars

\* the directories below d, each with its full path: prefix, then the name
\* attributes of the directories walked through, joined with "/"
RECURSIVE WalksFrom(_, _, _)
WalksFrom(h, d, prefix) ==
    LET path == prefix \o h[d].name
    IN  {<<path, d>>} \cup
        UNION {WalksFrom(h, h[d].directories[k], path \o <<"/">>) :
                   k \in DOMAIN h[d].directories}

\* every directory of the structure with its full path
FullPaths(h, dirs) == UNION {WalksFrom(h, dirs[k], <<>>) : k \in DOMAIN dirs}

\* C16: every directory of the structure is retrieved by its full path: for
\* the directory reached from the top level by the walk d1, ..., dn, both
\* get_directory_by_path and the walk of the facade methods, given
\* d1.name + "/" + ... + "/" + dn.name, resolve to that directory.
C16_FullPathResolves ==
    \A w \in FullPaths(heap, fs) :
        /\ FileStructure_get_directory_by_path(heap, fs, w[1]) = w[2]
        /\ ToolWalk(heap, fs, w[1]) = [returned |-> FALSE, dir |-> w[2]]

----------------------------------------------------------------------------
(* Claims about names, keys and load() *)

\* a Directory stored in a mapping under a key that is not its name
Misnamed(h, dirs) ==
    {d \in ReachFrom(h, Range(dirs)) :
        \/ \E k \in DOMAIN dirs : dirs[k] = d /\ h[d].name # k
        \/ \E p \in DOMAIN h : \E k \in DOMAIN h[p].directories :
               h[p].directories[k] = d /\ h[d].name # k}

\* C17: in every reachable state, after any sequence of adds and removes and
\* after any deserialization, every Directory stored in a mapping (the
\* top-level directories of the structure, or the directories of a parent) has
\* a name attribute equal to the key it is stored under.
C17_NameEqualsKey == Misnamed(heap, fs) = {}

\* C18: whenever load() returns normally, the structure in memory is the
\* deserialization of the document now persisted, for every persisted
\* document, the empty document {} included, and whatever the structure in
\* memory held before the call.
C18_LoadGivesPersistedDocument ==
    [][(last'.op = "load" /\ last'.outcome \in {"ok", "no_data"}) =>
          FileStructureValue(heap', fs') = Deserialized(disk'.doc)]_vars

====
